---- MODULE Spec2Model ----
(***************************************************************************)
(* A model of float-diff: the difference metrics of util.rs, the           *)
(* SamplePoint tracker of diff_part_summary.rs, the LogHistogram of        *)
(* log_histogram.rs and the DiffSummary of diff_summary_f64.rs.            *)
(*                                                                         *)
(* f64 is modelled by a scaled-down IEEE-754 binary format: MantBits bits  *)
(* of precision, round-to-nearest-even, signed zeros, signed infinities    *)
(* and signed NaNs.  A finite value is an integer count m of the smallest  *)
(* subnormal 2^-FracBits; it is representable when m = c * 2^s with        *)
(* c < 2^MantBits and s <= MaxShift.                                       *)
(***************************************************************************)
EXTENDS Integers, Sequences, FiniteSets, TLC

(***************************************************************************)
(* The floating-point format.                                              *)
(***************************************************************************)
MantBits == 3
FracBits == 10
MaxShift == 17

Pow2(n) == 2 ^ n
One == Pow2(FracBits)
MantLimit == Pow2(MantBits)
MaxFin == (MantLimit - 1) * Pow2(MaxShift)

Min(a, b) == IF a < b THEN a ELSE b
Max(a, b) == IF a > b THEN a ELSE b

NaN(neg) == [k |-> "nan", neg |-> neg, m |-> 0]
Inf(neg) == [k |-> "inf", neg |-> neg, m |-> 0]
Fin(neg, m) == [k |-> "fin", neg |-> neg, m |-> m]

\* f64::NAN and f64::INFINITY are positive-signed constants
NAN == NaN(FALSE)
INFINITY == Inf(FALSE)
PosZero == Fin(FALSE, 0)

\* the dyadic rational n * 2^e as a value of the format (n * 2^e must be
\* representable: used for literals only)
Dy(n, e) == Fin(n < 0, (IF n < 0 THEN -n ELSE n) * Pow2(FracBits + e))
Neg(x) == [x EXCEPT !.neg = ~x.neg]

is_nan(x) == x.k = "nan"
is_infinite(x) == x.k = "inf"
is_sign_negative(x) == x.neg
is_sign_positive(x) == ~x.neg
IsZero(x) == x.k = "fin" /\ x.m = 0

\* number of low bits a magnitude must drop to fit MantBits bits
RECURSIVE ShiftOf(_)
ShiftOf(q) == IF q < MantLimit THEN 0 ELSE 1 + ShiftOf(q \div 2)

\* n/d rounded to the nearest integer, ties to even
RoundEven(n, d) ==
    LET q == n \div d
        r == n % d
    IN  IF 2 * r < d THEN q
        ELSE IF 2 * r > d THEN q + 1
        ELSE IF q % 2 = 0 THEN q ELSE q + 1

\* n/d (in units of the smallest subnormal) rounded to the format's
\* precision, ties to even; the result may exceed MaxFin (overflow)
RoundFin(n, d) ==
    LET s == ShiftOf(n \div d)
    IN  RoundEven(n, d * Pow2(s)) * Pow2(s)

\* (n/d) * 2^t rounded once; for t > 0 the caller gives n/d >= MantLimit or
\* n/d an integer below MantLimit, so that rounding commutes with the scaling.
\* An overflowing result is reported as MaxFin + 1.
RoundScaled(n, d, t) ==
    IF t < 0 THEN Min(RoundFin(n, d * Pow2(-t)), MaxFin + 1)
    ELSE LET r == RoundFin(n, d)
         IN  IF t <= MaxShift
             THEN Min(r * Pow2(t), MaxFin + 1)
             ELSE IF r * Pow2(Min(t - MaxShift, MantBits)) >= MantLimit
                  THEN MaxFin + 1
                  ELSE r * Pow2(t)

\* a rounded magnitude as a value: overflow gives an infinity
Pack(neg, m) == IF m > MaxFin THEN Inf(neg) ELSE Fin(neg, m)

Mant(m) == m \div Pow2(ShiftOf(m))

\* the signed integer a finite value stands for
SVal(x) == IF x.neg THEN -x.m ELSE x.m

(***************************************************************************)
(* IEEE-754 arithmetic.  ns is the sign bit of a NaN that an arithmetic    *)
(* operation produces: Rust leaves it unspecified (std, "NaN bit           *)
(* patterns"), and x86-64 SSE produces the negative default NaN for an     *)
(* invalid operation, so it is an input of every operation.                *)
(***************************************************************************)
FAbs(x) == [x EXCEPT !.neg = FALSE]

FAdd(x, y, ns) ==
    IF is_nan(x) \/ is_nan(y) THEN NaN(ns)
    ELSE IF is_infinite(x) /\ is_infinite(y)
         THEN IF x.neg = y.neg THEN x ELSE NaN(ns)
    ELSE IF is_infinite(x) THEN x
    ELSE IF is_infinite(y) THEN y
    ELSE LET s == SVal(x) + SVal(y)
         IN  IF s = 0 THEN Fin(x.neg /\ y.neg, 0)
             ELSE IF s < 0 THEN Pack(TRUE, RoundFin(-s, 1))
             ELSE Pack(FALSE, RoundFin(s, 1))

FSub(x, y, ns) == FAdd(x, Neg(y), ns)

FMul(x, y, ns) ==
    LET neg == (x.neg # y.neg)
    IN  IF is_nan(x) \/ is_nan(y) THEN NaN(ns)
        ELSE IF is_infinite(x) \/ is_infinite(y)
             THEN IF IsZero(x) \/ IsZero(y) THEN NaN(ns) ELSE Inf(neg)
        ELSE IF x.m = 0 \/ y.m = 0 THEN Fin(neg, 0)
        ELSE Pack(neg, RoundScaled(Mant(x.m) * Mant(y.m), 1,
                                   ShiftOf(x.m) + ShiftOf(y.m) - FracBits))

FDiv(x, y, ns) ==
    LET neg == (x.neg # y.neg)
    IN  IF is_nan(x) \/ is_nan(y) THEN NaN(ns)
        ELSE IF is_infinite(x)
             THEN IF is_infinite(y) THEN NaN(ns) ELSE Inf(neg)
        ELSE IF is_infinite(y) THEN Fin(neg, 0)
        ELSE IF y.m = 0 THEN IF x.m = 0 THEN NaN(ns) ELSE Inf(neg)
        ELSE IF x.m = 0 THEN Fin(neg, 0)
        ELSE Pack(neg, RoundScaled(Mant(x.m) * Pow2(2 * MantBits), Mant(y.m),
                                   ShiftOf(x.m) - ShiftOf(y.m) + FracBits
                                       - 2 * MantBits))

\* x % y: the remainder of truncated division, exact, with the sign of x
FRem(x, y, ns) ==
    IF is_nan(x) \/ is_nan(y) \/ is_infinite(x) \/ IsZero(y) THEN NaN(ns)
    ELSE IF is_infinite(y) THEN x
    ELSE Fin(x.neg, x.m % y.m)

\* comparisons: false whenever an operand is NaN; -0 equals +0
Ord(x) == IF is_infinite(x)
          THEN (IF x.neg THEN -(MaxFin + 1) ELSE MaxFin + 1)
          ELSE SVal(x)
FEq(x, y) == ~is_nan(x) /\ ~is_nan(y) /\ Ord(x) = Ord(y)
FNe(x, y) == ~FEq(x, y)
FLt(x, y) == ~is_nan(x) /\ ~is_nan(y) /\ Ord(x) < Ord(y)
FGt(x, y) == FLt(y, x)
FLe(x, y) == ~is_nan(x) /\ ~is_nan(y) /\ Ord(x) <= Ord(y)

(***************************************************************************)
(* util.rs: the difference metrics.  Each returns <<magnitude,             *)
(* sign_change>>.                                                          *)
(***************************************************************************)
Two == Dy(2, 0)

\* faulty variant of calc_diff_abs: the sign change is tested with "< 0.0"
calc_diff_abs_LessThanZero(x, y, ns) ==
    <<IF is_nan(x) /\ is_nan(y) THEN PosZero
      ELSE IF is_infinite(x) /\ is_infinite(y)
           THEN IF is_sign_negative(x) = is_sign_negative(y)
                THEN PosZero ELSE INFINITY
      ELSE FAbs(FSub(x, y, ns)),
      FLt(x, PosZero) # FLt(y, PosZero)>>

calc_diff_abs(x, y, ns) ==
    LET diff_abs ==
            IF is_nan(x) /\ is_nan(y) THEN PosZero
            ELSE IF is_infinite(x) /\ is_infinite(y)
                 THEN IF is_sign_negative(x) = is_sign_negative(y)
                      THEN PosZero ELSE INFINITY
            ELSE FAbs(FSub(x, y, ns))
        sign_change == is_sign_negative(x) # is_sign_negative(y)
    IN  <<diff_abs, sign_change>>

\* faulty variant of RelScale: a difference of 0 is scaled too
RelScale_NoZeroSkip(x, y, d, ns) ==
    <<FMul(d[1], FDiv(Two, FAdd(FAbs(x), FAbs(y), ns), ns), ns), d[2]>>

\* lines 21-24
RelScale(x, y, d, ns) ==
    IF FNe(d[1], PosZero)
    THEN <<FMul(d[1], FDiv(Two, FAdd(FAbs(x), FAbs(y), ns), ns), ns), d[2]>>
    ELSE d

calc_diff_rel(x, y, ns) == RelScale(x, y, calc_diff_abs(x, y, ns), ns)

\* faulty variant of LesserScale: the relative scaling is applied whatever
\* the sum of magnitudes is
LesserScale_AlwaysRelative(d, sum_abs, ns) ==
    IF FNe(d[1], PosZero) /\ ~is_infinite(d[1])
    THEN <<FMul(d[1], FDiv(Two, sum_abs, ns), ns), d[2]>>
    ELSE d

\* lines 34-41
LesserScale(d, sum_abs, ns) ==
    IF FNe(d[1], PosZero) /\ ~is_infinite(d[1]) /\ FGt(sum_abs, Two)
    THEN <<FMul(d[1], FDiv(Two, sum_abs, ns), ns), d[2]>>
    ELSE d

calc_diff_lesser(x, y, ns) ==
    LesserScale(calc_diff_abs(x, y, ns), FAdd(FAbs(x), FAbs(y), ns), ns)

\* faulty variant of CyclicShift: a remainder below the range is not shifted
CyclicShift_NoShiftUp(xmod, span, range_min, range_max, ns) ==
    IF FGt(xmod, range_max) THEN FSub(xmod, span, ns)
    ELSE xmod

\* lines 78-84
CyclicShift(xmod, span, range_min, range_max, ns) ==
    IF FLt(xmod, range_min) THEN FAdd(xmod, span, ns)
    ELSE IF FGt(xmod, range_max) THEN FSub(xmod, span, ns)
    ELSE xmod

CyclicSpan(x, span, range_min, range_max, ns) ==
    CyclicShift(FRem(x, span, ns), span, range_min, range_max, ns)

cyclic_range(x, range_min, range_max, ns) ==
    CyclicSpan(x, FSub(range_max, range_min, ns), range_min, range_max, ns)

\* the two assertions that open calc_diff_cyclic
CyclicRangeOk(range_min, range_max) ==
    /\ FLt(range_min, range_max)
    /\ FLe(range_min, PosZero) /\ FLe(PosZero, range_max)

\* lines 54-59
CyclicDiff1(x, y, xmod, ymod, ns) ==
    IF (is_nan(xmod) /\ ~is_nan(x)) \/ (is_nan(ymod) /\ ~is_nan(y))
    THEN <<NAN, TRUE>>
    ELSE calc_diff_abs(xmod, ymod, ns)

\* lines 60-66
CyclicDiff2(xmod, ymod, diff1, range_min, range_max, ns) ==
    IF FLt(xmod, ymod)
    THEN calc_diff_abs(FSub(FAdd(xmod, range_max, ns), range_min, ns), ymod, ns)
    ELSE IF FGt(xmod, ymod)
    THEN calc_diff_abs(xmod, FSub(FAdd(ymod, range_max, ns), range_min, ns), ns)
    ELSE diff1

\* faulty variant of CyclicChoose: the wrap-around candidate is never taken
CyclicChoose_DirectOnly(x, y, xmod, ymod, diff1, diff2) ==
    <<diff1[1], FNe(x, xmod) \/ FNe(y, ymod) \/ diff1[2]>>

\* lines 67-71
CyclicChoose(x, y, xmod, ymod, diff1, diff2) ==
    IF FLt(diff2[1], diff1[1])
    THEN <<diff2[1], TRUE>>
    ELSE <<diff1[1], FNe(x, xmod) \/ FNe(y, ymod) \/ diff1[2]>>

CyclicReduced(x, y, xmod, ymod, range_min, range_max, ns) ==
    CyclicChoose(x, y, xmod, ymod, CyclicDiff1(x, y, xmod, ymod, ns),
                 CyclicDiff2(xmod, ymod, CyclicDiff1(x, y, xmod, ymod, ns),
                             range_min, range_max, ns))

\* the result for a range that passes the two assertions
calc_diff_cyclic(x, y, range_min, range_max, ns) ==
    CyclicReduced(x, y, cyclic_range(x, range_min, range_max, ns),
                  cyclic_range(y, range_min, range_max, ns),
                  range_min, range_max, ns)

\* faulty variants of is_diff_worse: without the NaN rule; with >= for >
is_diff_worse_NoNanRule(a, b) == FGt(a, b)
is_diff_worse_OrEqual(a, b) == (is_nan(a) /\ ~is_nan(b)) \/ FLe(b, a)

is_diff_worse(a, b) == (is_nan(a) /\ ~is_nan(b)) \/ FGt(a, b)

(***************************************************************************)
(* diff_part_summary.rs: the SamplePoint tracker.                          *)
(***************************************************************************)
DiffPartSummary_new ==
    [sample_x |-> NAN, sample_y |-> NAN, sample_index |-> 0, count |-> 0]

\* faulty variant of DiffPartSummary_add: every event overwrites the sample
DiffPartSummary_add_AlwaysOverwrite(s, x, y, index, worst) ==
    [sample_x |-> x, sample_y |-> y, sample_index |-> index,
     count |-> s.count + 1]

DiffPartSummary_add(s, x, y, index, worst) ==
    IF worst \/ s.count = 0
    THEN [sample_x |-> x, sample_y |-> y, sample_index |-> index,
          count |-> s.count + 1]
    ELSE [s EXCEPT !.count = s.count + 1]

(***************************************************************************)
(* log_histogram.rs: the LogHistogram.  log10_buckets is a function whose  *)
(* domain is the set of exponents that have a bucket.                      *)
(***************************************************************************)
MinDisplayBuckets == 3

LogHistogram_new(max_display_buckets) ==
    [num_nan |-> 0, num_inf |-> 0, num_zero |-> 0,
     max_display_buckets |-> max_display_buckets,
     log10_buckets |-> <<>>]

\* floor(log10(n/d)) for n >= d > 0
RECURSIVE FloorLog10(_, _)
FloorLog10(n, d) == IF n < 10 * d THEN 0 ELSE 1 + FloorLog10(n, 10 * d)

\* diff.log10() as isize, for a finite diff > 0: the cast truncates toward
\* zero, so a logarithm in (-1, 0) gives 0
Log10Trunc(diff) ==
    IF diff.m >= One THEN FloorLog10(diff.m, One)
    ELSE -FloorLog10(One, diff.m)

\* the assertion that opens LogHistogram::add
LogHistogram_add_ok(diff) == is_sign_positive(diff)

\* faulty variant of LogHistogram_add: a bucket is set to 1, not incremented
LogHistogram_add_Overwrite(h, diff) ==
    IF is_nan(diff) THEN [h EXCEPT !.num_nan = h.num_nan + 1]
    ELSE IF is_infinite(diff) THEN [h EXCEPT !.num_inf = h.num_inf + 1]
    ELSE IF FEq(diff, PosZero) THEN [h EXCEPT !.num_zero = h.num_zero + 1]
    ELSE [h EXCEPT !.log10_buckets =
             [e \in DOMAIN h.log10_buckets \cup {Log10Trunc(diff)} |->
                 IF e = Log10Trunc(diff) THEN 1 ELSE h.log10_buckets[e]]]

LogHistogram_add(h, diff) ==
    IF is_nan(diff) THEN [h EXCEPT !.num_nan = h.num_nan + 1]
    ELSE IF is_infinite(diff) THEN [h EXCEPT !.num_inf = h.num_inf + 1]
    ELSE IF FEq(diff, PosZero) THEN [h EXCEPT !.num_zero = h.num_zero + 1]
    ELSE LET exp == Log10Trunc(diff)
             current == IF exp \in DOMAIN h.log10_buckets
                        THEN h.log10_buckets[exp] ELSE 0
         IN  [h EXCEPT !.log10_buckets =
                  [e \in DOMAIN h.log10_buckets \cup {exp} |->
                      IF e = exp THEN current + 1 ELSE h.log10_buckets[e]]]

\* stand-ins for usize::MAX and isize::MIN, the sentinels of the search for
\* the smallest bucket (the largest integers TLC computes with)
USIZE_MAX == 2147483647
ISIZE_MIN == -2147483647

\* a set of integers as an ascending sequence
RECURSIVE SortedSeq(_)
SortedSeq(S) ==
    IF S = {} THEN <<>>
    ELSE LET lo == CHOOSE a \in S : \A b \in S : a <= b
         IN  <<lo>> \o SortedSeq(S \ {lo})

\* lines 66-72: keys_asc and histo_reduced before the loop
ReduceInit(h) ==
    [keys_asc |-> SortedSeq(DOMAIN h.log10_buckets),
     histo_reduced |-> [key \in DOMAIN h.log10_buckets |->
                           <<key, key, h.log10_buckets[key]>>]]

\* lines 77-84: the scan of histo_reduced in ascending key order, keeping the
\* first key whose count is below every count seen before it
RECURSIVE ScanSmallest(_, _, _, _)
ScanSmallest(hr, todo, collapse_from, val_smallest) ==
    IF todo = <<>> THEN <<collapse_from, val_smallest>>
    ELSE LET key == Head(todo)
         IN  IF hr[key][3] < val_smallest[3]
             THEN ScanSmallest(hr, Tail(todo), key, hr[key])
             ELSE ScanSmallest(hr, Tail(todo), collapse_from, val_smallest)

\* Vec::iter().position(): the 0-based index of val, or -1 for None
RECURSIVE PositionFrom(_, _, _)
PositionFrom(seq, val, i) ==
    IF i > Len(seq) THEN -1
    ELSE IF seq[i] = val THEN i - 1
    ELSE PositionFrom(seq, val, i + 1)
Position(seq, val) == PositionFrom(seq, val, 1)

\* Vec indexing and BTreeMap::get().unwrap(): do they panic?
InBounds(seq, i) == 0 <= i /\ i < Len(seq)
HasKey(hr, key) == key \in DOMAIN hr

\* the sequence without its element at 0-based index i
RemoveAt(seq, i) == [j \in 1..(Len(seq) - 1) |-> IF j <= i THEN seq[j] ELSE seq[j + 1]]

\* lines 90-109: the 0-based indices of keys_asc that the choice of the
\* neighbour reads, given the number of buckets left
NeighbourReads(len, index_smallest) ==
    IF index_smallest = 0 THEN {index_smallest + 1}
    ELSE IF index_smallest >= len - 1 THEN {index_smallest - 1}
    ELSE {index_smallest - 1, index_smallest + 1}

\* faulty variant of CollapseToIndex: equal neighbours send the bucket up
CollapseToIndex_TieHigher(keys, hr, index_smallest) ==
    IF index_smallest = 0 THEN index_smallest + 1
    ELSE IF index_smallest >= Cardinality(DOMAIN hr) - 1 THEN index_smallest - 1
    ELSE IF hr[keys[index_smallest + 2]][3] <= hr[keys[index_smallest]][3]
         THEN index_smallest + 1
         ELSE index_smallest - 1

\* lines 90-109: the 0-based index in keys_asc of the bucket to collapse into
CollapseToIndex(keys, hr, index_smallest) ==
    IF index_smallest = 0 THEN index_smallest + 1
    ELSE IF index_smallest >= Cardinality(DOMAIN hr) - 1 THEN index_smallest - 1
    ELSE IF hr[keys[index_smallest + 2]][3] < hr[keys[index_smallest]][3]
         THEN index_smallest + 1
         ELSE index_smallest - 1

\* what a pass leaves when a check of it fails
PassPanic(keys, hr, collapse_from, what) ==
    [keys_asc |-> keys, histo_reduced |-> hr, collapse_from |-> collapse_from,
     collapse_to |-> collapse_from, panic |-> what]

\* faulty variants of ValSum: the collapsed bucket's count is dropped; the range of
\* the collapsed bucket is dropped
ValSum_DropCount(val_to, val_smallest) ==
    <<Min(val_to[1], val_smallest[1]), Max(val_to[2], val_smallest[2]), val_to[3]>>
ValSum_DropRange(val_to, val_smallest) ==
    <<val_to[1], val_to[2], val_to[3] + val_smallest[3]>>

\* line 111
ValSum(val_to, val_smallest) ==
    <<Min(val_to[1], val_smallest[1]), Max(val_to[2], val_smallest[2]),
      val_to[3] + val_smallest[3]>>

\* faulty variant of RemoveInsert: collapse_from is not removed
RemoveInsert_KeepFrom(hr, collapse_from, collapse_to, val_sum) ==
    [k \in DOMAIN hr \cup {collapse_to} |->
        IF k = collapse_to THEN val_sum ELSE hr[k]]

\* lines 113-114: remove collapse_from, then insert val_sum at collapse_to
RemoveInsert(hr, collapse_from, collapse_to, val_sum) ==
    [k \in (DOMAIN hr \ {collapse_from}) \cup {collapse_to} |->
        IF k = collapse_to THEN val_sum ELSE hr[k]]

\* lines 116-117
PassDone(keys2, hr2, collapse_from, collapse_to) ==
    [keys_asc |-> keys2, histo_reduced |-> hr2, collapse_from |-> collapse_from,
     collapse_to |-> collapse_to,
     panic |-> IF Len(keys2) = Cardinality(DOMAIN hr2) THEN ""
               ELSE "Size mismatch between key list and map"]

\* lines 111-117
CollapseInto(keys, hr, collapse_from, val_smallest, index_smallest, collapse_to) ==
    PassDone(RemoveAt(keys, index_smallest),
             RemoveInsert(hr, collapse_from, collapse_to,
                          ValSum(hr[collapse_to], val_smallest)),
             collapse_from, collapse_to)

\* lines 86-117
CollapseAt(keys, hr, collapse_from, val_smallest, index_smallest) ==
    IF index_smallest < 0
    THEN PassPanic(keys, hr, collapse_from, "position unwrap")
    ELSE IF \E i \in NeighbourReads(Cardinality(DOMAIN hr), index_smallest) :
                ~InBounds(keys, i)
    THEN PassPanic(keys, hr, collapse_from, "index out of bounds")
    ELSE IF \E i \in NeighbourReads(Cardinality(DOMAIN hr), index_smallest) :
                ~HasKey(hr, keys[i + 1])
    THEN PassPanic(keys, hr, collapse_from, "get unwrap")
    ELSE CollapseInto(keys, hr, collapse_from, val_smallest, index_smallest,
                      keys[CollapseToIndex(keys, hr, index_smallest) + 1])

CollapseFound(keys, hr, found) ==
    CollapseAt(keys, hr, found[1], found[2], Position(keys, found[1]))

\* lines 77-117: one pass of the while loop.  panic names the check that
\* failed, "" when the pass completes.
ReducePass(keys, hr) ==
    CollapseFound(keys, hr,
                  ScanSmallest(hr, SortedSeq(DOMAIN hr), ISIZE_MIN,
                               <<ISIZE_MIN, ISIZE_MIN, USIZE_MAX>>))

\* lines 73-119: the loop run to its end
RECURSIVE ReduceLoop(_, _, _)
LoopAfter(hr, p, max_display_buckets) ==
    IF p.panic # "" THEN [histo_reduced |-> hr, panic |-> p.panic]
    ELSE ReduceLoop(p.keys_asc, p.histo_reduced, max_display_buckets)

ReduceLoop(keys, hr, max_display_buckets) ==
    IF Cardinality(DOMAIN hr) > max_display_buckets
    THEN LoopAfter(hr, ReducePass(keys, hr), max_display_buckets)
    ELSE [histo_reduced |-> hr, panic |-> ""]

ReduceFrom(start, max_display_buckets) ==
    ReduceLoop(start.keys_asc, start.histo_reduced, max_display_buckets)

reduced_histo(h) ==
    IF ~(h.max_display_buckets > 2)
    THEN [histo_reduced |-> <<>>, panic |-> "max_display_buckets > 2"]
    ELSE ReduceFrom(ReduceInit(h), h.max_display_buckets)

(***************************************************************************)
(* util.rs: to_percent and help_sign.  The f64 arithmetic of to_percent    *)
(* (100 * part / all, its comparisons with 1 and 99, and round(), which    *)
(* rounds halves away from zero) is exact on counts below 2^45, so it is   *)
(* computed on the integers.                                               *)
(***************************************************************************)
\* faulty variant of to_percent: without the cap at 99
to_percent_NoCap(num_part, num_all) ==
    IF 100 * num_part < num_all /\ num_part # 0 THEN 1
    ELSE (200 * num_part + num_all) \div (2 * num_all)

to_percent(num_part, num_all) ==
    IF 100 * num_part < num_all /\ num_part # 0 THEN 1
    ELSE IF 100 * num_part > 99 * num_all /\ num_part # num_all THEN 99
    ELSE (200 * num_part + num_all) \div (2 * num_all)

help_sign(x) == IF (FEq(x, PosZero) \/ is_nan(x)) /\ is_sign_negative(x)
                THEN "-" ELSE ""

(***************************************************************************)
(* Display for LogHistogram: the segments written, in order.               *)
(***************************************************************************)
LogHistogram_num_total(h) ==
    LET RECURSIVE Sum(_)
        Sum(S) == IF S = {} THEN 0
                  ELSE LET k == CHOOSE a \in S : TRUE
                       IN  h.log10_buckets[k] + Sum(S \ {k})
    IN  h.num_inf + h.num_nan + h.num_zero + Sum(DOMAIN h.log10_buckets)

RECURSIVE BucketSegments(_, _, _)
BucketSegments(hr, todo, num_total) ==
    IF todo = <<>> THEN <<>>
    ELSE LET key == Head(todo)
             count == to_percent(hr[key][3], num_total)
             seg == IF hr[key][1] = hr[key][2]
                    THEN [kind |-> "e", lo |-> key, hi |-> key, percent |-> count]
                    ELSE [kind |-> "e to e", lo |-> hr[key][1], hi |-> hr[key][2],
                          percent |-> count]
         IN  <<seg>> \o BucketSegments(hr, Tail(todo), num_total)

Segment(kind, count, num_total) ==
    IF count > 0
    THEN <<[kind |-> kind, lo |-> 0, hi |-> 0,
            percent |-> to_percent(count, num_total)]>>
    ELSE <<>>

\* faulty variant of FmtReduced: the buckets are written before the zero
\* segment
FmtReduced_BucketsFirst(h, red, num_total) ==
    IF red.panic # "" THEN [panic |-> red.panic, text |-> <<>>]
    ELSE IF \E key \in DOMAIN red.histo_reduced : red.histo_reduced[key][3] = 0
    THEN [panic |-> "Internal error: Bucket contains no items", text |-> <<>>]
    ELSE [panic |-> "",
          text |-> BucketSegments(red.histo_reduced,
                                  SortedSeq(DOMAIN red.histo_reduced),
                                  num_total)
                     \o Segment("zero", h.num_zero, num_total)
                     \o Segment("inf", h.num_inf, num_total)
                     \o Segment("nan", h.num_nan, num_total)]

FmtReduced(h, red, num_total) ==
    IF red.panic # "" THEN [panic |-> red.panic, text |-> <<>>]
    ELSE IF \E key \in DOMAIN red.histo_reduced : red.histo_reduced[key][3] = 0
    THEN [panic |-> "Internal error: Bucket contains no items",
          text |-> Segment("zero", h.num_zero, num_total)]
    ELSE [panic |-> "",
          text |-> Segment("zero", h.num_zero, num_total)
                     \o BucketSegments(red.histo_reduced,
                                       SortedSeq(DOMAIN red.histo_reduced),
                                       num_total)
                     \o Segment("inf", h.num_inf, num_total)
                     \o Segment("nan", h.num_nan, num_total)]

LogHistogram_fmt(h) == FmtReduced(h, reduced_histo(h), LogHistogram_num_total(h))

(***************************************************************************)
(* The state.  diff .. calc_diff are the fields of a DiffSummary (histo    *)
(* also serves as a LogHistogram on its own); keys_asc and histo_reduced   *)
(* are the locals of reduced_histo while its loop runs.                    *)
(***************************************************************************)
VARIABLES
    diff,            \* DiffSummary.diff: the worst magnitude so far
    allow_diff,      \* the tolerance
    allow_sign,      \* whether sign changes are allowed
    num_total,
    num_diff_fail,
    summary_diff,    \* DiffPartSummary of the non-zero magnitudes
    summary_sign,    \* DiffPartSummary of the sign changes
    histo,           \* LogHistogram
    calc_diff,       \* the bound metric
    panic,           \* "" while the program runs, else the check that failed
    adds,            \* history: the add calls that returned, oldest first
    ret,             \* what the last query returned
    pc,              \* "idle", or "loop" inside reduced_histo
    keys_asc,
    histo_reduced,
    passes,          \* history: loop passes of the running reduced_histo
    call             \* a call of a pure function of util.rs and its result

vars == <<diff, allow_diff, allow_sign, num_total, num_diff_fail, summary_diff,
          summary_sign, histo, calc_diff, panic, adds, ret, pc, keys_asc,
          histo_reduced, passes, call>>

summaryVars == <<diff, allow_diff, allow_sign, num_total, num_diff_fail,
                 summary_diff, summary_sign, calc_diff, adds>>
reduceVars == <<pc, keys_asc, histo_reduced, passes>>

NoRet == [op |-> "none"]
NoCall == [fn |-> "none"]

\* a call of the metric fn and the pair it returned
Called(fn, x, y, d) ==
    [fn |-> fn, x |-> x, y |-> y, magnitude |-> d[1], sign_change |-> d[2]]

(***************************************************************************)
(* Bounds and inputs.                                                      *)
(***************************************************************************)
MaxAdds == 3

\* the range the cyclic metric is bound with: [-2, 2]
CyclicMin == Dy(-2, 0)
CyclicMax == Dy(2, 0)

Metrics == {"abs", "rel", "lesser", "cyclic"}

\* tolerances: 1.0, a negative one and NaN
Tolerances == {Dy(1, 0), Dy(-1, 0), NAN}

\* the pairs add is called with
SamplePairs ==
    { <<PosZero, Neg(PosZero)>>,          \* equal, signs differ
      <<Dy(1, 0), Dy(3, 0)>>,             \* 2 apart; relative difference 1
      <<Dy(1, -10), PosZero>>,            \* 2^-10 apart
      <<Dy(-1, -6), Dy(1, 4)>>,           \* 16 + 1/64 apart (rounds), signs differ
      <<NAN, NAN>>,
      <<Dy(1, 0), NAN>>,
      <<INFINITY, Neg(INFINITY)>> }

\* (*self.calc_diff)(x, y)
CalcDiff(metric, x, y, ns) ==
    CASE metric = "abs" -> calc_diff_abs(x, y, ns)
      [] metric = "rel" -> calc_diff_rel(x, y, ns)
      [] metric = "lesser" -> calc_diff_lesser(x, y, ns)
      [] metric = "cyclic" -> calc_diff_cyclic(x, y, CyclicMin, CyclicMax, ns)

(***************************************************************************)
(* diff_summary_f64.rs: DiffSummary.                                       *)
(***************************************************************************)
\* DiffSummary::new
DiffSummary_new(tolerance, sign, bucket_count, metric) ==
    /\ allow_diff = tolerance
    /\ allow_sign = sign
    /\ diff = PosZero
    /\ num_total = 0
    /\ num_diff_fail = 0
    /\ summary_diff = DiffPartSummary_new
    /\ summary_sign = DiffPartSummary_new
    /\ histo = LogHistogram_new(bucket_count)
    /\ calc_diff = metric

\* is_diff_worse's assertion on its two arguments
is_diff_worse_ok(a, b) == is_sign_positive(a) /\ is_sign_positive(b)

\* faulty variant of AddNonZero: a magnitude equal to the tolerance counts as a
\* failure, and a failure is counted once more for a new worst magnitude
AddNonZero_CountWorst(x, y, index, mag, is_diff_worst) ==
    /\ summary_diff' = DiffPartSummary_add(summary_diff, x, y, index, is_diff_worst)
    /\ diff' = IF is_diff_worst THEN mag ELSE diff
    /\ num_diff_fail' = IF ~FLt(mag, allow_diff)
                        THEN num_diff_fail + (IF is_diff_worst THEN 2 ELSE 1)
                        ELSE num_diff_fail

\* faulty variant of AddNonZero: only a magnitude greater than the tolerance
\* counts as a failure, so a NaN magnitude does not
AddNonZero_NanPasses(x, y, index, mag, is_diff_worst) ==
    /\ summary_diff' = DiffPartSummary_add(summary_diff, x, y, index, is_diff_worst)
    /\ diff' = IF is_diff_worst THEN mag ELSE diff
    /\ num_diff_fail' = IF FGt(mag, allow_diff) THEN num_diff_fail + 1
                        ELSE num_diff_fail

\* faulty variant of AddNonZero: the latest magnitude that is not 0 replaces
\* the worst one
AddNonZero_KeepLatest(x, y, index, mag, is_diff_worst) ==
    /\ summary_diff' = DiffPartSummary_add(summary_diff, x, y, index, is_diff_worst)
    /\ diff' = mag
    /\ num_diff_fail' = IF ~FLe(mag, allow_diff) THEN num_diff_fail + 1
                        ELSE num_diff_fail

\* lines 134-143, for a magnitude that is not 0
AddNonZero(x, y, index, mag, is_diff_worst) ==
    /\ summary_diff' = DiffPartSummary_add(summary_diff, x, y, index, is_diff_worst)
    /\ diff' = IF is_diff_worst THEN mag ELSE diff
    /\ num_diff_fail' = IF ~FLe(mag, allow_diff) THEN num_diff_fail + 1
                        ELSE num_diff_fail

\* lines 132-148, given what the metric returned
AddResult(x, y, index, mag, sign_change) ==
    IF ~is_diff_worse_ok(mag, diff)
    THEN /\ panic' = "is_diff_worse"
         /\ UNCHANGED <<diff, num_diff_fail, summary_diff, summary_sign, histo, adds>>
    ELSE /\ IF ~FEq(mag, PosZero)
            THEN AddNonZero(x, y, index, mag, is_diff_worse(mag, diff))
            ELSE UNCHANGED <<summary_diff, diff, num_diff_fail>>
         /\ summary_sign' = IF sign_change
                            THEN DiffPartSummary_add(summary_sign, x, y, index, FALSE)
                            ELSE summary_sign
         /\ IF LogHistogram_add_ok(mag)
            THEN /\ histo' = LogHistogram_add(histo, mag)
                 /\ panic' = ""
                 /\ adds' = Append(adds, [x |-> x, y |-> y, index |-> index,
                                          diff |-> mag, sign_change |-> sign_change])
            ELSE /\ panic' = "LogHistogram::add"
                 /\ UNCHANGED <<histo, adds>>

AddMetric(x, y, index, d) == AddResult(x, y, index, d[1], d[2])

\* DiffSummary::add.  A failed assertion ends the program after the
\* increment of num_total that precedes it.
Add(x, y, index, ns) ==
    /\ panic = "" /\ pc = "idle"
    /\ num_total < MaxAdds
    /\ num_total' = num_total + 1
    /\ AddMetric(x, y, index, CalcDiff(calc_diff, x, y, ns))
    /\ call' = Called(calc_diff, x, y, CalcDiff(calc_diff, x, y, ns))
    /\ ret' = NoRet
    /\ UNCHANGED <<allow_diff, allow_sign, calc_diff, reduceVars>>

\* DiffSummary::is_ok
is_ok == FLe(diff, allow_diff) /\ (allow_sign \/ summary_sign.count = 0)

IsOk ==
    /\ panic = "" /\ pc = "idle"
    /\ ret' = [op |-> "is_ok", value |-> is_ok]
    /\ UNCHANGED <<summaryVars, histo, panic, reduceVars, call>>

\* faulty variant of DiffSummary_assert: the sign assertion comes first
DiffSummary_assert_SignFirst ==
    IF ~(allow_sign \/ summary_sign.count = 0)
    THEN [op |-> "assert", value |-> "sign difference disallowed",
          item |-> summary_sign.sample_index]
    ELSE IF ~FLe(diff, allow_diff)
    THEN [op |-> "assert", value |-> "diff abs outside inclusive",
          item |-> summary_diff.sample_index]
    ELSE [op |-> "assert", value |-> "returned", item |-> 0]

\* DiffSummary::assert: the first assertion that fails ends the program
DiffSummary_assert ==
    IF ~FLe(diff, allow_diff)
    THEN [op |-> "assert", value |-> "diff abs outside inclusive",
          item |-> summary_diff.sample_index]
    ELSE IF ~(allow_sign \/ summary_sign.count = 0)
    THEN [op |-> "assert", value |-> "sign difference disallowed",
          item |-> summary_sign.sample_index]
    ELSE [op |-> "assert", value |-> "returned", item |-> 0]

AssertReturn(r) ==
    /\ ret' = r
    /\ panic' = IF r.value = "returned" THEN "" ELSE "assert"

AssertCall ==
    /\ panic = "" /\ pc = "idle"
    /\ AssertReturn(DiffSummary_assert)
    /\ UNCHANGED <<summaryVars, histo, reduceVars, call>>

\* lines 216-232
FmtWorst(h) ==
    IF summary_diff.count > 0
    THEN [branch |-> "worst",
          worst_index |-> summary_diff.sample_index,
          worst_x |-> <<help_sign(summary_diff.sample_x), summary_diff.sample_x>>,
          worst_y |-> <<help_sign(summary_diff.sample_y), summary_diff.sample_y>>,
          worst_diff |-> diff,
          percent_failed |-> to_percent(num_diff_fail, num_total),
          tolerance |-> allow_diff,
          histo |-> h.text]
    ELSE IF num_total > 0 THEN [branch |-> "zero 100%"]
    ELSE [branch |-> "none"]

\* lines 233-249
FmtSign ==
    IF num_total > 0
    THEN [sign_percent |-> to_percent(summary_sign.count, num_total),
          first |-> IF summary_sign.count > 0
                    THEN <<summary_sign.sample_index,
                           help_sign(summary_sign.sample_x), summary_sign.sample_x,
                           help_sign(summary_sign.sample_y), summary_sign.sample_y>>
                    ELSE <<>>]
    ELSE [sign_percent |-> -1, first |-> <<>>]

FmtParts(h) ==
    IF ~(num_diff_fail <= num_total)
    THEN [op |-> "fmt", panic |-> "num_diff_fail <= num_total"]
    ELSE IF summary_diff.count > 0 /\ h.panic # ""
    THEN [op |-> "fmt", panic |-> h.panic]
    ELSE [op |-> "fmt", panic |-> "", count |-> num_total] @@ FmtWorst(h) @@ FmtSign

\* Display for DiffSummary: the parts written
DiffSummary_fmt == FmtParts(LogHistogram_fmt(histo))

FmtReturn(r) ==
    /\ ret' = r
    /\ panic' = r.panic

Fmt ==
    /\ panic = "" /\ pc = "idle"
    /\ FmtReturn(DiffSummary_fmt)
    /\ UNCHANGED <<summaryVars, histo, reduceVars, call>>

Init ==
    /\ \E tolerance \in Tolerances, sign \in BOOLEAN, metric \in Metrics :
          DiffSummary_new(tolerance, sign, MinDisplayBuckets, metric)
    /\ panic = ""
    /\ adds = <<>>
    /\ ret = NoRet
    /\ pc = "idle"
    /\ keys_asc = <<>>
    /\ histo_reduced = <<>>
    /\ passes = <<>>
    /\ call = NoCall

Next ==
    \/ \E pair \in SamplePairs, ns \in BOOLEAN :
          Add(pair[1], pair[2], num_total, ns)
    \/ IsOk
    \/ AssertCall
    \/ Fmt

Spec == Init /\ [][Next]_vars

(***************************************************************************)
(* A LogHistogram on its own: add, reduced_histo pass by pass, and         *)
(* Display.                                                                *)
(***************************************************************************)
MaxDisplayBuckets == 4
MaxHistoAdds == 7

\* the magnitudes the histogram is fed: the special values, one value in
\* each decade from 2^-10 to 128, and a negative-signed zero
Magnitudes ==
    { PosZero, INFINITY, NAN, Neg(PosZero),
      Dy(1, -10), Dy(1, -7), Dy(1, -4), Dy(1, 0), Dy(1, 4), Dy(1, 7) }

InitHisto ==
    /\ \E bucket_count \in MinDisplayBuckets..MaxDisplayBuckets :
          DiffSummary_new(PosZero, FALSE, bucket_count, "abs")
    /\ panic = ""
    /\ adds = <<>>
    /\ ret = NoRet
    /\ pc = "idle"
    /\ keys_asc = <<>>
    /\ histo_reduced = <<>>
    /\ passes = <<>>
    /\ call = NoCall

\* LogHistogram::add
HistoAdd(magnitude) ==
    /\ panic = "" /\ pc = "idle"
    /\ LogHistogram_num_total(histo) < MaxHistoAdds
    /\ IF LogHistogram_add_ok(magnitude)
       THEN /\ histo' = LogHistogram_add(histo, magnitude)
            /\ panic' = ""
       ELSE /\ panic' = "LogHistogram::add"
            /\ UNCHANGED histo
    /\ ret' = NoRet
    /\ UNCHANGED <<summaryVars, reduceVars, call>>

\* reduced_histo, lines 65-72
ReduceEnter(start) ==
    /\ keys_asc' = start.keys_asc
    /\ histo_reduced' = start.histo_reduced

ReduceBegin ==
    /\ panic = "" /\ pc = "idle"
    /\ IF histo.max_display_buckets > 2
       THEN /\ ReduceEnter(ReduceInit(histo))
            /\ pc' = "loop"
            /\ panic' = ""
       ELSE /\ panic' = "max_display_buckets > 2"
            /\ UNCHANGED <<pc, keys_asc, histo_reduced>>
    /\ passes' = <<>>
    /\ ret' = NoRet
    /\ UNCHANGED <<summaryVars, histo, call>>

\* one pass of the loop, lines 73-118
ReducePassed(p) ==
    /\ keys_asc' = p.keys_asc
    /\ histo_reduced' = p.histo_reduced
    /\ panic' = p.panic
    /\ passes' = Append(passes, [collapse_from |-> p.collapse_from,
                                 collapse_to |-> p.collapse_to,
                                 before |-> histo_reduced])

\* faulty variant of ReducePassStep: the pass works on the live buckets,
\* not on a copy
ReducePassStep_InPlace ==
    /\ panic = "" /\ pc = "loop"
    /\ Cardinality(DOMAIN histo_reduced) > histo.max_display_buckets
    /\ ReducePassed(ReducePass(keys_asc, histo_reduced))
    /\ histo' = [histo EXCEPT !.log10_buckets =
                    [k \in DOMAIN histo_reduced' |-> histo_reduced'[k][3]]]
    /\ UNCHANGED <<summaryVars, ret, pc, call>>

ReducePassStep ==
    /\ panic = "" /\ pc = "loop"
    /\ Cardinality(DOMAIN histo_reduced) > histo.max_display_buckets
    /\ ReducePassed(ReducePass(keys_asc, histo_reduced))
    /\ UNCHANGED <<summaryVars, histo, ret, pc, call>>

\* the loop's exit and line 119
ReduceReturn ==
    /\ panic = "" /\ pc = "loop"
    /\ ~(Cardinality(DOMAIN histo_reduced) > histo.max_display_buckets)
    /\ ret' = [op |-> "reduced_histo", value |-> histo_reduced, passes |-> passes]
    /\ pc' = "idle"
    /\ keys_asc' = <<>>
    /\ histo_reduced' = <<>>
    /\ passes' = <<>>
    /\ UNCHANGED <<summaryVars, histo, panic, call>>

\* Display for LogHistogram
HistoFmtReturn(r) ==
    /\ ret' = [op |-> "fmt", text |-> r.text]
    /\ panic' = r.panic

HistoFmt ==
    /\ panic = "" /\ pc = "idle"
    /\ HistoFmtReturn(LogHistogram_fmt(histo))
    /\ UNCHANGED <<summaryVars, histo, reduceVars, call>>

NextHisto ==
    \/ \E magnitude \in Magnitudes : HistoAdd(magnitude)
    \/ ReduceBegin
    \/ ReducePassStep
    \/ ReduceReturn
    \/ HistoFmt

SpecHisto == InitHisto /\ [][NextHisto]_vars

(***************************************************************************)
(* The metrics of util.rs on their own: a pair of arguments is drawn, then *)
(* one metric is called on it.                                             *)
(***************************************************************************)
FloatInputs ==
    { NAN, Neg(NAN), INFINITY, Neg(INFINITY), PosZero, Neg(PosZero),
      Dy(1, -10), Dy(1, -1), Dy(-1, -2), Dy(1, 0), Dy(-1, 0), Dy(3, 0),
      Dy(4, 0), Dy(5, 0), Dy(-7, 0), Fin(FALSE, MaxFin), Fin(TRUE, MaxFin) }

\* <<range_min, range_max>>: three ranges that calc_diff_cyclic accepts (the
\* span of the third is rounded), then one that excludes 0, an empty one and
\* a reversed one
CyclicRanges ==
    { <<Dy(-2, 0), Dy(2, 0)>>, <<PosZero, Dy(4, 0)>>, <<Dy(-1, -2), Dy(4, 0)>>,
      <<Dy(1, 0), Dy(3, 0)>>, <<PosZero, PosZero>>, <<Dy(2, 0), Dy(-2, 0)>> }

InitMetric ==
    /\ DiffSummary_new(PosZero, FALSE, MinDisplayBuckets, "abs")
    /\ panic = ""
    /\ adds = <<>>
    /\ ret = NoRet
    /\ pc = "idle"
    /\ keys_asc = <<>>
    /\ histo_reduced = <<>>
    /\ passes = <<>>
    /\ \E x \in FloatInputs, y \in FloatInputs :
          call = [fn |-> "none", x |-> x, y |-> y]

metricFrame == <<summaryVars, histo, ret, reduceVars>>

CallAbs(ns) ==
    /\ panic = "" /\ call.fn = "none"
    /\ call' = Called("abs", call.x, call.y, calc_diff_abs(call.x, call.y, ns))
    /\ UNCHANGED <<metricFrame, panic>>

CallRel(ns) ==
    /\ panic = "" /\ call.fn = "none"
    /\ call' = Called("rel", call.x, call.y, calc_diff_rel(call.x, call.y, ns))
    /\ UNCHANGED <<metricFrame, panic>>

CallLesser(ns) ==
    /\ panic = "" /\ call.fn = "none"
    /\ call' = Called("lesser", call.x, call.y, calc_diff_lesser(call.x, call.y, ns))
    /\ UNCHANGED <<metricFrame, panic>>

CallCyclic(range_min, range_max, ns) ==
    /\ panic = "" /\ call.fn = "none"
    /\ IF CyclicRangeOk(range_min, range_max)
       THEN /\ call' = Called("cyclic", call.x, call.y,
                              calc_diff_cyclic(call.x, call.y, range_min,
                                               range_max, ns))
                          @@ [range_min |-> range_min, range_max |-> range_max]
            /\ panic' = ""
       ELSE /\ call' = [fn |-> "cyclic", x |-> call.x, y |-> call.y,
                        range_min |-> range_min, range_max |-> range_max]
            /\ panic' = IF ~FLt(range_min, range_max)
                        THEN "range_min must be less than range_max"
                        ELSE "0.0 must fall within [range_min, range_max]"
    /\ UNCHANGED metricFrame

NextMetric ==
    \/ \E ns \in BOOLEAN : CallAbs(ns)
    \/ \E ns \in BOOLEAN : CallRel(ns)
    \/ \E ns \in BOOLEAN : CallLesser(ns)
    \/ \E range \in CyclicRanges, ns \in BOOLEAN : CallCyclic(range[1], range[2], ns)

SpecMetric == InitMetric /\ [][NextMetric]_vars

(***************************************************************************)
(* to_percent on its own: a part and a total are drawn, then to_percent is *)
(* called on them.  Its callers pass a part of a total that is not 0.      *)
(***************************************************************************)
MaxCount == 201

InitPercent ==
    /\ DiffSummary_new(PosZero, FALSE, MinDisplayBuckets, "abs")
    /\ panic = ""
    /\ adds = <<>>
    /\ ret = NoRet
    /\ pc = "idle"
    /\ keys_asc = <<>>
    /\ histo_reduced = <<>>
    /\ passes = <<>>
    /\ \E num_all \in 1..MaxCount : \E num_part \in 0..num_all :
          call = [fn |-> "none", num_part |-> num_part, num_all |-> num_all]

CallPercent ==
    /\ panic = "" /\ call.fn = "none"
    /\ call' = [fn |-> "to_percent", num_part |-> call.num_part,
                num_all |-> call.num_all,
                value |-> to_percent(call.num_part, call.num_all)]
    /\ UNCHANGED <<metricFrame, panic>>

NextPercent == CallPercent

SpecPercent == InitPercent /\ [][NextPercent]_vars

(***************************************************************************)
(* Properties of DiffSummary, checked under Spec.                          *)
(***************************************************************************)
\* an add call ended in a failed assertion: the program is over
AddFailed == panic \in {"is_diff_worse", "LogHistogram::add"}

\* the tolerance is >= 0 and not NaN
ToleranceValid == FLe(PosZero, allow_diff)

AllWithinTolerance == \A i \in 1..Len(adds) : FLe(adds[i].diff, allow_diff)
NoSignChanged == \A i \in 1..Len(adds) : ~adds[i].sign_change

\* C1: with a tolerance >= 0 that is not NaN, after any sequence of adds
\* is_ok() is true exactly when every magnitude produced so far is <= the
\* tolerance (a NaN magnitude is not) and allow_sign is set or no add
\* reported a sign change; and that is what a call of is_ok returns.
C1_IsOkIffAllWithin ==
    (ToleranceValid /\ ~AddFailed) =>
        /\ is_ok <=> (AllWithinTolerance /\ (allow_sign \/ NoSignChanged))
        /\ ret.op = "is_ok" =>
              (ret.value <=> (AllWithinTolerance /\ (allow_sign \/ NoSignChanged)))

\* is_ok() returned false after a NaN magnitude followed by a magnitude
\* within the tolerance
C1_Witness ==
    /\ ToleranceValid /\ ret.op = "is_ok" /\ ~ret.value /\ allow_sign
    /\ Len(adds) >= 2
    /\ \E i \in 1..(Len(adds) - 1) : is_nan(adds[i].diff)
    /\ FLe(adds[Len(adds)].diff, allow_diff)

\* the rank of a magnitude in the order NaN > +Infinity > finite
Rank(mag) == IF is_nan(mag) THEN MaxFin + 2
             ELSE IF is_infinite(mag) THEN MaxFin + 1
             ELSE mag.m

\* the earliest add whose magnitude no add exceeds
EarliestWorst ==
    CHOOSE i \in 1..Len(adds) :
        /\ \A j \in 1..Len(adds) : Rank(adds[j].diff) <= Rank(adds[i].diff)
        /\ \A j \in 1..(i - 1) : Rank(adds[j].diff) < Rank(adds[i].diff)

\* C2: after any sequence of adds the stored worst magnitude is the maximum
\* of the magnitudes added, in the order NaN > +Infinity > finite (0 when
\* none was nonzero), and once a nonzero magnitude was added the worst
\* SamplePoint holds the x, y and index of the earliest add with that
\* magnitude.
C2_WorstIsEarliestMax ==
    ~AddFailed =>
        IF \A i \in 1..Len(adds) : Rank(adds[i].diff) = 0
        THEN diff = PosZero /\ summary_diff.count = 0
        ELSE /\ diff = adds[EarliestWorst].diff
             /\ summary_diff.sample_x = adds[EarliestWorst].x
             /\ summary_diff.sample_y = adds[EarliestWorst].y
             /\ summary_diff.sample_index = adds[EarliestWorst].index

\* three adds: the second is worse than the first and the third ties with
\* the second
C2_Witness ==
    /\ Len(adds) = 3 /\ panic = ""
    /\ Rank(adds[1].diff) > 0
    /\ Rank(adds[1].diff) < Rank(adds[2].diff)
    /\ Rank(adds[3].diff) = Rank(adds[2].diff)
    /\ summary_diff.sample_index = adds[2].index

\* the counters of a LogHistogram: NaN, infinite, zero and one per exponent
Slots(h1, h2) ==
    {<<"nan", 0>>, <<"inf", 0>>, <<"zero", 0>>}
        \cup {<<"e", k>> : k \in DOMAIN h1.log10_buckets \cup DOMAIN h2.log10_buckets}

SlotCount(h, slot) ==
    CASE slot[1] = "nan" -> h.num_nan
      [] slot[1] = "inf" -> h.num_inf
      [] slot[1] = "zero" -> h.num_zero
      [] slot[1] = "e" -> IF slot[2] \in DOMAIN h.log10_buckets
                          THEN h.log10_buckets[slot[2]] ELSE 0

\* exactly one counter of h2 is one more than in h1, the others are equal
OneMore(h1, h2) ==
    /\ h2.max_display_buckets = h1.max_display_buckets
    /\ \E slot \in Slots(h1, h2) :
          /\ SlotCount(h2, slot) = SlotCount(h1, slot) + 1
          /\ \A other \in Slots(h1, h2) \ {slot} :
                SlotCount(h2, other) = SlotCount(h1, other)

RECURSIVE SumOver(_, _)
SumOver(f, S) == IF S = {} THEN 0
                 ELSE LET k == CHOOSE a \in S : TRUE
                      IN  f[k] + SumOver(f, S \ {k})

CounterSum(h) ==
    h.num_nan + h.num_inf + h.num_zero + SumOver(h.log10_buckets, DOMAIN h.log10_buckets)

ReducedSum(hr) == SumOver([k \in DOMAIN hr |-> hr[k][3]], DOMAIN hr)

LiveSum == SumOver(histo.log10_buckets, DOMAIN histo.log10_buckets)
LiveCount == Cardinality(DOMAIN histo.log10_buckets)

\* C4: the counts of the buckets that reduced_histo returns sum to the sum
\* of the counts of the exponent buckets of the histogram, and every pass
\* of the loop leaves that sum as it was.
C4_ReducePreservesSum ==
    /\ pc = "loop" => ReducedSum(histo_reduced) = LiveSum
    /\ \A i \in 1..Len(passes) : ReducedSum(passes[i].before) = LiveSum
    /\ ret.op = "reduced_histo" => ReducedSum(ret.value) = LiveSum

\* a reduction of two passes has returned, and counts above 1 were merged
C4_Witness ==
    /\ ret.op = "reduced_histo" /\ panic = ""
    /\ Len(ret.passes) = 2
    /\ \E k \in DOMAIN ret.value : ret.value[k][3] >= 3
    /\ LiveSum >= 5

\* C5: the loop ends after exactly max(0, n - cap) passes, each of which
\* removes exactly one bucket, and returns min(n, cap) buckets; a pass
\* never runs with 2 buckets or fewer; no index is out of bounds, no key is
\* missing and the size check holds, so reduction never fails.
C5_ReduceTerminates ==
    /\ panic \in {"", "LogHistogram::add"}
    /\ pc = "loop" =>
          /\ Cardinality(DOMAIN histo_reduced) = LiveCount - Len(passes)
          /\ Len(keys_asc) = LiveCount - Len(passes)
          /\ Len(passes) <= Max(0, LiveCount - histo.max_display_buckets)
          /\ \A i \in 1..Len(passes) :
                /\ Cardinality(DOMAIN passes[i].before) = LiveCount - (i - 1)
                /\ Cardinality(DOMAIN passes[i].before) > 2
    /\ ret.op = "reduced_histo" =>
          /\ Len(ret.passes) = Max(0, LiveCount - histo.max_display_buckets)
          /\ Cardinality(DOMAIN ret.value) = Min(LiveCount, histo.max_display_buckets)

\* six exponent buckets have been reduced to the cap of three
C5_Witness ==
    /\ ret.op = "reduced_histo" /\ panic = ""
    /\ LiveCount = 6
    /\ Len(ret.passes) = 3
    /\ Cardinality(DOMAIN ret.value) = 3

\* the surviving buckets whose range holds exponent k
Holders(hr, k) == {s \in DOMAIN hr : hr[s][1] <= k /\ k <= hr[s][2]}

RangeWithin(inner, outer) == outer[1] <= inner[1] /\ inner[2] <= outer[2]

\* C6: after a reduction every exponent key of the histogram lies in the
\* [min, max] range of exactly one surviving bucket; a surviving bucket's
\* range holds its own key and the ranges of the buckets merged into it;
\* the ranges are pairwise disjoint and ordered like the keys.
C6_RangesPartitionKeys ==
    ret.op = "reduced_histo" =>
        /\ \A k \in DOMAIN histo.log10_buckets :
              Cardinality(Holders(ret.value, k)) = 1
        /\ \A s \in DOMAIN ret.value :
              ret.value[s][1] <= s /\ s <= ret.value[s][2]
        /\ \A i \in 1..Len(ret.passes) :
              \A s \in Holders(ret.value, ret.passes[i].collapse_to) :
                 /\ RangeWithin(ret.passes[i].before[ret.passes[i].collapse_from],
                                ret.value[s])
                 /\ RangeWithin(ret.passes[i].before[ret.passes[i].collapse_to],
                                ret.value[s])
        /\ \A s \in DOMAIN ret.value : \A t \in DOMAIN ret.value :
              s < t => ret.value[s][2] < ret.value[t][1]

\* a surviving bucket took in two others, one from each side
C6_Witness ==
    /\ ret.op = "reduced_histo" /\ panic = ""
    /\ Len(ret.passes) >= 2
    /\ \E s \in DOMAIN ret.value :
          /\ ret.value[s][1] < s /\ s < ret.value[s][2]
          /\ Cardinality({k \in DOMAIN histo.log10_buckets :
                             ret.value[s][1] <= k /\ k <= ret.value[s][2]}) = 3

(***************************************************************************)
(* More properties of DiffSummary, checked under Spec.                     *)
(***************************************************************************)
\* C7: num_diff_fail <= num_total always, so the assertion that opens the
\* report never fails; num_total is the number of add calls made (the one
\* that failed included).
C7_FailCountBounded ==
    /\ num_diff_fail <= num_total
    /\ panic # "num_diff_fail <= num_total"
    /\ num_total = Len(adds) + (IF AddFailed THEN 1 ELSE 0)
    /\ ret.op = "fmt" => ret.panic # "num_diff_fail <= num_total"

\* every one of three adds was out of tolerance and the report was written
C7_Witness ==
    /\ ret.op = "fmt" /\ panic = ""
    /\ num_total = 3 /\ num_diff_fail = 3

\* C8: assert() returns normally exactly when is_ok() is true; when the
\* tolerance check and the sign check both fail, the failure raised is the
\* tolerance one.
C8_AssertIffIsOk ==
    /\ (DiffSummary_assert.value = "returned") <=> is_ok
    /\ (~FLe(diff, allow_diff) /\ ~(allow_sign \/ summary_sign.count = 0))
          => DiffSummary_assert.value = "diff abs outside inclusive"
    /\ ret.op = "assert" =>
          /\ (ret.value = "returned") <=> is_ok
          /\ (panic = "") <=> is_ok
          /\ ~FLe(diff, allow_diff) => ret.value = "diff abs outside inclusive"

\* assert() was called with both checks failing
C8_Witness ==
    /\ ret.op = "assert" /\ panic = "assert"
    /\ ~FLe(diff, allow_diff)
    /\ ~allow_sign /\ summary_sign.count > 0
    /\ ret.value = "diff abs outside inclusive"

(***************************************************************************)
(* Properties of the metrics.                                              *)
(***************************************************************************)
\* |x - y| for x, y not NaN and not both infinite, computed on the exact
\* integers and rounded once
AbsReference(x, y) ==
    IF is_infinite(x) \/ is_infinite(y) THEN INFINITY
    ELSE IF SVal(x) >= SVal(y) THEN Pack(FALSE, RoundFin(SVal(x) - SVal(y), 1))
    ELSE Pack(FALSE, RoundFin(SVal(y) - SVal(x), 1))

\* C9: calc_diff_abs gives magnitude 0 for two NaNs; for two infinities 0
\* when their signs agree and +Inf when they differ; NaN when exactly one
\* argument is NaN; |x - y| otherwise.  sign_changed is true exactly when
\* the sign bits of x and y differ.
C9_AbsReference ==
    call.fn = "abs" =>
        /\ call.sign_change <=> (is_sign_negative(call.x) # is_sign_negative(call.y))
        /\ IF is_nan(call.x) /\ is_nan(call.y) THEN call.magnitude = PosZero
           ELSE IF is_infinite(call.x) /\ is_infinite(call.y)
           THEN call.magnitude = IF is_sign_negative(call.x) = is_sign_negative(call.y)
                                 THEN PosZero ELSE INFINITY
           ELSE IF is_nan(call.x) \/ is_nan(call.y) THEN is_nan(call.magnitude)
           ELSE call.magnitude = AbsReference(call.x, call.y)

\* calc_diff_abs has compared +0 with -0
C9_Witness ==
    /\ call.fn = "abs"
    /\ call.x = PosZero /\ call.y = Neg(PosZero)
    /\ call.sign_change /\ call.magnitude = PosZero

\* C10: each of the four metrics returns a magnitude whose sign bit is
\* clear, so no add fails the sign assertion of is_diff_worse or of
\* LogHistogram::add.
C10_MagnitudeSignClear ==
    /\ call.fn \in Metrics => is_sign_positive(call.magnitude)
    /\ ~AddFailed

(***************************************************************************)
(* More properties of the metrics, checked under SpecMetric.               *)
(***************************************************************************)
\* what calc_diff_abs returns for the arguments of the last call
AbsOfCall(ns) == calc_diff_abs(call.x, call.y, ns)

\* C11 as stated: for all x and y the magnitude of calc_diff_lesser is <=
\* the magnitude of calc_diff_abs, and both return the same sign_changed.
C11_LesserLeAbs ==
    call.fn = "lesser" =>
        \A ns \in BOOLEAN :
            /\ FLe(call.magnitude, AbsOfCall(ns)[1])
            /\ call.sign_change = AbsOfCall(ns)[2]

\* C11, amended: calc_diff_lesser and calc_diff_abs return the same
\* sign_changed; when the magnitude of calc_diff_abs is NaN so is that of
\* calc_diff_lesser (<= is false between them), and otherwise the magnitude
\* of calc_diff_lesser is <= the magnitude of calc_diff_abs.
C11_LesserLeAbsUnlessNan ==
    call.fn = "lesser" =>
        \A ns \in BOOLEAN :
            /\ call.sign_change = AbsOfCall(ns)[2]
            /\ IF is_nan(AbsOfCall(ns)[1]) THEN is_nan(call.magnitude)
               ELSE FLe(call.magnitude, AbsOfCall(ns)[1])

\* calc_diff_lesser scaled a finite difference down
C11_Witness ==
    /\ call.fn = "lesser"
    /\ ~is_nan(call.magnitude) /\ FNe(call.magnitude, PosZero)
    /\ FLt(call.magnitude, AbsOfCall(FALSE)[1])
    /\ ~is_infinite(AbsOfCall(FALSE)[1])

\* |x| + |y| <= 2 for the arguments of the last call, on the exact values
SumAbsAtMostTwo ==
    /\ call.x.k = "fin" /\ call.y.k = "fin"
    /\ call.x.m + call.y.m <= 2 * One

\* |x| + |y| as the metrics compute it
SumAbsOfCall(ns) == FAdd(FAbs(call.x), FAbs(call.y), ns)

\* C12 as stated: whenever |x| + |y| <= 2, calc_diff_rel and
\* calc_diff_lesser both return the magnitude calc_diff_abs returns.
C12_RelLesserEqAbs ==
    (call.fn \in {"rel", "lesser"} /\ SumAbsAtMostTwo) =>
        \A ns \in BOOLEAN : call.magnitude = AbsOfCall(ns)[1]

\* C12, amended: whenever |x| + |y| <= 2, calc_diff_lesser returns the
\* magnitude calc_diff_abs returns; calc_diff_rel returns it when that
\* magnitude is 0 or the computed |x| + |y| is 2, and a greater magnitude
\* otherwise.
C12_LesserEqAbsRelGeAbs ==
    SumAbsAtMostTwo =>
        \A ns \in BOOLEAN :
            /\ call.fn = "lesser" => call.magnitude = AbsOfCall(ns)[1]
            /\ call.fn = "rel" =>
                  IF FEq(AbsOfCall(ns)[1], PosZero) \/ FEq(SumAbsOfCall(ns), Two)
                  THEN call.magnitude = AbsOfCall(ns)[1]
                  ELSE FGt(call.magnitude, AbsOfCall(ns)[1])

\* calc_diff_rel has scaled a difference up for arguments with |x| + |y| < 2
C12_Witness ==
    /\ call.fn = "rel" /\ SumAbsAtMostTwo
    /\ FLt(SumAbsOfCall(FALSE), Two)
    /\ FGt(call.magnitude, AbsOfCall(FALSE)[1])
    /\ ~is_infinite(call.magnitude)

\* the last call was calc_diff_cyclic on finite x and y with a range that
\* passed its assertions
CyclicCallFinite ==
    /\ call.fn = "cyclic" /\ panic = ""
    /\ call.x.k = "fin" /\ call.y.k = "fin"

\* x and y of the last call reduced into its range
XmodOfCall == cyclic_range(call.x, call.range_min, call.range_max, FALSE)
YmodOfCall == cyclic_range(call.y, call.range_min, call.range_max, FALSE)

\* v lies outside the closed range of the last call
OutsideRange(v) == FLt(v, call.range_min) \/ FGt(v, call.range_max)

\* the direct and the wrap-around candidate of the last call
DirectOfCall == CyclicDiff1(call.x, call.y, XmodOfCall, YmodOfCall, FALSE)
WrapOfCall ==
    CyclicDiff2(XmodOfCall, YmodOfCall, DirectOfCall, call.range_min,
                call.range_max, FALSE)

\* C13: for a valid range and finite x and y, calc_diff_cyclic reports
\* sign_changed exactly when an input lay outside [range_min, range_max], or
\* the wrap-around candidate was strictly smaller than the direct one, or
\* the reduced values differ in sign bit; so two inputs inside the closed
\* range with equal sign bits and a direct difference not larger than the
\* wrap-around one are not flagged.
C13_CyclicSignChanged ==
    CyclicCallFinite =>
        (call.sign_change <=>
            \/ OutsideRange(call.x) \/ OutsideRange(call.y)
            \/ FLt(WrapOfCall[1], DirectOfCall[1])
            \/ is_sign_negative(XmodOfCall) # is_sign_negative(YmodOfCall))

(***************************************************************************)
(* Properties of to_percent, checked under SpecPercent.                    *)
(***************************************************************************)
\* r is 100 * part / total rounded to a nearest integer
NearestPercent(r, part, total) ==
    /\ 2 * (100 * part - r * total) <= total
    /\ 2 * (r * total - 100 * part) <= total

Rendered == ret.op = "fmt" /\ panic = ""

IsBucketSegment(seg) == seg.kind \in {"e", "e to e"}

\* the number of segments of a kind in a rendering
KindCount(text, kind) == Cardinality({i \in 1..Len(text) : text[i].kind = kind})

\* what the segments show apart from their order: zero, inf and nan each
\* once exactly when its counter is not 0, and one segment per surviving
\* bucket, a single exponent for a range of one exponent and a range
\* otherwise, in ascending exponent order
SegmentsShown(text, hr) ==
    /\ KindCount(text, "zero") = IF histo.num_zero > 0 THEN 1 ELSE 0
    /\ KindCount(text, "inf") = IF histo.num_inf > 0 THEN 1 ELSE 0
    /\ KindCount(text, "nan") = IF histo.num_nan > 0 THEN 1 ELSE 0
    /\ KindCount(text, "e") + KindCount(text, "e to e") = Cardinality(DOMAIN hr)
    /\ \A i \in 1..Len(text) :
          IsBucketSegment(text[i]) =>
              /\ \E key \in DOMAIN hr :
                    text[i].lo = hr[key][1] /\ text[i].hi = hr[key][2]
              /\ text[i].kind = "e" <=> text[i].lo = text[i].hi
    /\ \A i \in 1..Len(text) : \A j \in 1..Len(text) :
          (i < j /\ IsBucketSegment(text[i]) /\ IsBucketSegment(text[j]))
              => text[i].hi < text[j].lo

\* the place of a segment in the order C15 states: zero, inf, nan, buckets
StatedPlace(seg) ==
    CASE seg.kind = "zero" -> 0
      [] seg.kind = "inf" -> 1
      [] seg.kind = "nan" -> 2
      [] OTHER -> 3

\* the place of a segment in the order zero, buckets, inf, nan
WrittenPlace(seg) ==
    CASE seg.kind = "zero" -> 0
      [] seg.kind = "inf" -> 2
      [] seg.kind = "nan" -> 3
      [] OTHER -> 1

\* C15 as stated: the rendering shows the zero, inf and nan segments (each
\* only when its counter is not 0) first, then one segment per surviving
\* bucket in ascending exponent order, a single exponent or a range.
C15_SpecialsThenBuckets ==
    Rendered =>
        /\ SegmentsShown(ret.text, reduced_histo(histo).histo_reduced)
        /\ \A i \in 1..Len(ret.text) : \A j \in 1..Len(ret.text) :
              i < j => StatedPlace(ret.text[i]) <= StatedPlace(ret.text[j])

\* C15, amended: the rendering shows the zero segment first, then one
\* segment per surviving bucket in ascending exponent order, a single
\* exponent or a range, then the inf segment, then the nan segment; zero,
\* inf and nan each only when its counter is not 0.
C15_ZeroBucketsInfNan ==
    Rendered =>
        /\ SegmentsShown(ret.text, reduced_histo(histo).histo_reduced)
        /\ \A i \in 1..Len(ret.text) : \A j \in 1..Len(ret.text) :
              i < j => WrittenPlace(ret.text[i]) <= WrittenPlace(ret.text[j])

\* a rendering with a zero, an inf and a nan segment, a merged bucket and a
\* bucket of one exponent
C15_Witness ==
    /\ Rendered
    /\ histo.num_zero > 0 /\ histo.num_inf > 0 /\ histo.num_nan > 0
    /\ KindCount(ret.text, "e to e") >= 1
    /\ KindCount(ret.text, "e") >= 1
    /\ ret.text[1].kind = "zero"
    /\ ret.text[Len(ret.text)].kind = "nan"

\* C16: rendering a LogHistogram, and the reduction it runs, leave num_nan,
\* num_inf, num_zero, max_display_buckets and every exponent bucket as they
\* were: only an add step changes the histogram, and what was rendered is
\* what rendering again gives.
C16_RenderKeepsHistogram ==
    /\ [][histo' # histo => \E magnitude \in Magnitudes : HistoAdd(magnitude)]_vars
    /\ [](Rendered => ret.text = LogHistogram_fmt(histo).text)

\* a rendering that merged buckets has returned and the histogram still has
\* more exponent buckets than the cap
C16_Witness ==
    /\ Rendered
    /\ KindCount(ret.text, "e to e") >= 1
    /\ LiveCount > histo.max_display_buckets
    /\ LiveCount > KindCount(ret.text, "e") + KindCount(ret.text, "e to e")

(***************************************************************************)
(* More properties of reduced_histo, checked under SpecHisto.              *)
(***************************************************************************)
\* the keys of b below and above key
KeysBelow(b, key) == {k \in DOMAIN b : k < key}
KeysAbove(b, key) == {k \in DOMAIN b : k > key}
Highest(S) == CHOOSE k \in S : \A other \in S : other <= k
Lowest(S) == CHOOSE k \in S : \A other \in S : k <= other

\* from has the smallest count of b, and the lowest key of those that do
SmallestLowest(b, from) ==
    /\ from \in DOMAIN b
    /\ \A k \in DOMAIN b :
          b[from][3] < b[k][3] \/ (b[from][3] = b[k][3] /\ from <= k)

\* the neighbour C17 names for the bucket from of b
StatedNeighbour(b, from) ==
    IF KeysBelow(b, from) = {} THEN Lowest(KeysAbove(b, from))
    ELSE IF KeysAbove(b, from) = {} THEN Highest(KeysBelow(b, from))
    ELSE IF b[Lowest(KeysAbove(b, from))][3] < b[Highest(KeysBelow(b, from))][3]
         THEN Lowest(KeysAbove(b, from))
         ELSE Highest(KeysBelow(b, from))

PassAsStated(pass) ==
    /\ SmallestLowest(pass.before, pass.collapse_from)
    /\ pass.collapse_to = StatedNeighbour(pass.before, pass.collapse_from)

\* C17: every pass collapses the bucket with the smallest count, the lowest
\* key among equal counts, into the next-higher bucket when it is the
\* lowest, the next-lower one when it is the highest, and otherwise the
\* neighbour with the strictly smaller count, the lower one when the
\* neighbours are equal; the map returned is a function of the buckets and
\* the cap.
C17_CollapseChoice ==
    /\ \A i \in 1..Len(passes) : PassAsStated(passes[i])
    /\ ret.op = "reduced_histo" =>
          /\ \A i \in 1..Len(ret.passes) : PassAsStated(ret.passes[i])
          /\ ret.value = reduced_histo(histo).histo_reduced

\* a reduction has collapsed a bucket between two neighbours of equal,
\* greater count into the lower one
C17_Witness ==
    /\ ret.op = "reduced_histo" /\ panic = ""
    /\ \E i \in 1..Len(ret.passes) :
          /\ KeysBelow(ret.passes[i].before, ret.passes[i].collapse_from) # {}
          /\ KeysAbove(ret.passes[i].before, ret.passes[i].collapse_from) # {}
          /\ ret.passes[i].collapse_to < ret.passes[i].collapse_from
          /\ \E k \in KeysAbove(ret.passes[i].before, ret.passes[i].collapse_from) :
                /\ ret.passes[i].before[k][3]
                      = ret.passes[i].before[ret.passes[i].collapse_to][3]
                /\ ret.passes[i].before[k][3]
                      > ret.passes[i].before[ret.passes[i].collapse_from][3]

(***************************************************************************)
(* Properties of DiffSummary over time, checked under Spec.                *)
(***************************************************************************)
\* the adds that reported a sign change
SignChangedAdds == {i \in 1..Len(adds) : adds[i].sign_change}

EarliestSignChanged == CHOOSE i \in SignChangedAdds : \A j \in SignChangedAdds : i <= j

\* C18: summary_sign.count is the number of adds whose metric reported
\* sign_changed, and once it is not 0 summary_sign holds the x, y and index
\* of the earliest such add, which no later add overwrites, whatever the
\* magnitudes.
C18_FirstSignChangeKept ==
    /\ [](~AddFailed =>
             /\ summary_sign.count = Cardinality(SignChangedAdds)
             /\ summary_sign.count > 0 =>
                   /\ summary_sign.sample_x = adds[EarliestSignChanged].x
                   /\ summary_sign.sample_y = adds[EarliestSignChanged].y
                   /\ summary_sign.sample_index = adds[EarliestSignChanged].index)
    /\ [][summary_sign.count > 0 =>
             /\ summary_sign'.sample_x = summary_sign.sample_x
             /\ summary_sign'.sample_y = summary_sign.sample_y
             /\ summary_sign'.sample_index = summary_sign.sample_index]_vars

\* the second and the third of three adds reported a sign change, the third
\* with a worse magnitude that became the worst one
C18_Witness ==
    /\ Len(adds) = 3 /\ panic = ""
    /\ ~adds[1].sign_change /\ adds[2].sign_change /\ adds[3].sign_change
    /\ Rank(adds[3].diff) > Rank(adds[2].diff)
    /\ summary_diff.sample_index = adds[3].index
    /\ summary_sign.sample_index = adds[2].index
    /\ summary_sign.count = 2

(***************************************************************************)
(* Properties of cyclic_range, checked under SpecMetric.                   *)
(***************************************************************************)
\* the last call was calc_diff_cyclic with a valid range: range_min <
\* range_max and range_min <= 0 <= range_max, on the exact values
RangeValidOfCall ==
    /\ SVal(call.range_min) < SVal(call.range_max)
    /\ SVal(call.range_min) <= 0 /\ 0 <= SVal(call.range_max)

\* a failed range assertion ends calc_diff_cyclic exactly for invalid ranges
RangeChecked ==
    call.fn = "cyclic" => (panic # "" <=> ~RangeValidOfCall)

InsideRange(v) ==
    v.k = "fin" /\ FLe(call.range_min, v) /\ FLe(v, call.range_max)

\* range_max - range_min, exact and as cyclic_range computes it
ExactSpan == SVal(call.range_max) - SVal(call.range_min)
ComputedSpan == SVal(FSub(call.range_max, call.range_min, FALSE))

\* the multiples of the span that can take x into the range
Turns(x, span) == -(x.m \div span + 1) .. (x.m \div span + 1)

\* an integer rounded to the format's precision
RoundSigned(n) == IF n < 0 THEN -RoundFin(-n, 1) ELSE RoundFin(n, 1)

ExactlyReduced(x, v) ==
    \E turns \in Turns(x, ExactSpan) : SVal(v) = SVal(x) + turns * ExactSpan

ReducedThenRounded(x, v) ==
    \E turns \in Turns(x, ComputedSpan) :
        SVal(v) = RoundSigned(SVal(x) + turns * ComputedSpan)

\* C19 as stated: for a valid range and finite x, cyclic_range(x) is inside
\* [range_min, range_max] and differs from x by an integer multiple of
\* range_max - range_min; calc_diff_cyclic fails its precondition exactly
\* when the range is not valid.
C19_CyclicRangeExact ==
    /\ RangeChecked
    /\ CyclicCallFinite =>
          /\ InsideRange(XmodOfCall) /\ InsideRange(YmodOfCall)
          /\ ExactlyReduced(call.x, XmodOfCall)
          /\ ExactlyReduced(call.y, YmodOfCall)

\* C19, amended: for a valid range and finite x, cyclic_range(x) is inside
\* [range_min, range_max] and is x plus an integer multiple of the span as
\* computed (range_max - range_min, rounded), rounded to the format's
\* precision; calc_diff_cyclic fails its precondition exactly when the
\* range is not valid.
C19_CyclicRangeRounded ==
    /\ RangeChecked
    /\ CyclicCallFinite =>
          /\ InsideRange(XmodOfCall) /\ InsideRange(YmodOfCall)
          /\ ReducedThenRounded(call.x, XmodOfCall)
          /\ ReducedThenRounded(call.y, YmodOfCall)

\* calc_diff_cyclic has reduced an x above the range and a y below it
C19_Witness ==
    /\ CyclicCallFinite
    /\ FGt(call.x, call.range_max) /\ FLt(call.y, call.range_min)
    /\ InsideRange(XmodOfCall) /\ InsideRange(YmodOfCall)
    /\ FNe(XmodOfCall, call.x) /\ FNe(YmodOfCall, call.y)

(***************************************************************************)
(* Monotonicity of is_ok, checked under Spec.                              *)
(***************************************************************************)
\* C20: once is_ok() is false after some add, no later step makes it true
\* again: the worst magnitude is only ever replaced by a worse one and the
\* count of sign changes never decreases.
C20_IsOkMonotone ==
    [][(num_total > 0 /\ ~is_ok) => ~is_ok']_vars

\* is_ok() is false after an add whose magnitude exceeded the tolerance was
\* followed by an add that is within it and changes no sign
C20_Witness ==
    /\ Len(adds) >= 2
    /\ ~FLe(adds[1].diff, allow_diff)
    /\ FLe(adds[Len(adds)].diff, allow_diff)
    /\ ~FEq(adds[Len(adds)].diff, PosZero)
    /\ ~adds[Len(adds)].sign_change
    /\ ~is_ok

(***************************************************************************)
(* The failure counter and the worst magnitude, checked under Spec.        *)
(***************************************************************************)
\* the tolerance is a number that is not below 0
ToleranceUsual == FLe(PosZero, allow_diff)

\* C21: for a tolerance that is >= 0 and not NaN, num_diff_fail is 0 exactly
\* when the stored worst magnitude is <= the tolerance, the comparison that
\* is_ok and assert make; a NaN magnitude is a failure on both sides.
C21_FailCountIffWorstOutside ==
    ToleranceUsual => (num_diff_fail = 0 <=> FLe(diff, allow_diff))

\* after an add within the tolerance and a later add whose magnitude is NaN,
\* the worst magnitude is NaN and one failure is counted
C21_Witness ==
    /\ ToleranceUsual
    /\ Len(adds) >= 2
    /\ FLe(adds[1].diff, allow_diff) /\ ~FEq(adds[1].diff, PosZero)
    /\ adds[Len(adds)].diff.k = "nan"
    /\ diff.k = "nan"
    /\ num_diff_fail = 1

(***************************************************************************)
(* The counters of DiffSummary against each other, checked under Spec.     *)
(***************************************************************************)
\* every add that returned had magnitude exactly 0
AllZeroAdds == \A i \in 1..Len(adds) : FEq(adds[i].diff, PosZero)

\* the report written last took the "zero 100%" branch
ZeroBranchTaken == ret.branch = "zero 100%"

\* C22: in every reachable state num_diff_fail <= summary_diff.count <=
\* num_total, summary_sign.count <= num_total and histo.num_zero +
\* summary_diff.count = num_total; a report takes the "zero 100%" branch
\* exactly when at least one pair was added and every added pair had
\* magnitude exactly 0.
C22_CountersAgree ==
    /\ num_diff_fail <= summary_diff.count
    /\ summary_diff.count <= num_total
    /\ summary_sign.count <= num_total
    /\ histo.num_zero + summary_diff.count = num_total
    /\ (ret.op = "fmt" /\ ret.panic = "") =>
          (ZeroBranchTaken <=> (Len(adds) >= 1 /\ AllZeroAdds))

(***************************************************************************)
(* The magnitude of calc_diff_cyclic, checked under SpecMetric.            *)
(***************************************************************************)
\* the exact distances between the reduced values of the last call: along
\* the range, and around its ends
ExactDirect ==
    IF SVal(XmodOfCall) >= SVal(YmodOfCall)
    THEN SVal(XmodOfCall) - SVal(YmodOfCall)
    ELSE SVal(YmodOfCall) - SVal(XmodOfCall)

ExactWrap == ExactSpan - ExactDirect

ExactSmaller == IF ExactWrap < ExactDirect THEN ExactWrap ELSE ExactDirect

\* calc_diff_cyclic on the arguments of the last call, swapped
SwappedOfCall ==
    calc_diff_cyclic(call.y, call.x, call.range_min, call.range_max, FALSE)

\* C23: for a valid range and finite x and y, the magnitude of
\* calc_diff_cyclic is the smaller of the direct and the wrap-around distance
\* between the reduced values, it is at most half of range_max - range_min,
\* and magnitude and sign_changed are the same for (y, x) as for (x, y).
C23_CyclicSmallerDistance ==
    CyclicCallFinite =>
        /\ call.magnitude.k = "fin"
        /\ SVal(call.magnitude) = ExactSmaller
        /\ 2 * SVal(call.magnitude) <= ExactSpan
        /\ SwappedOfCall = <<call.magnitude, call.sign_change>>

\* the smaller of the two candidates as calc_diff_cyclic computes them
ComputedSmaller ==
    IF FLt(WrapOfCall[1], DirectOfCall[1]) THEN WrapOfCall[1]
    ELSE DirectOfCall[1]

\* C23, amended: for a valid range and finite x and y, the magnitude of
\* calc_diff_cyclic is the smaller of the two candidates as computed in
\* floating point: the direct one is the exact distance between the reduced
\* values rounded once, the wrap-around one is
\* |lower + range_max - range_min - higher| with every step rounded.  It is
\* at most half of range_max - range_min, and magnitude and sign_changed are
\* the same for (y, x) as for (x, y).
C23_CyclicSmallerComputed ==
    CyclicCallFinite =>
        /\ call.magnitude.k = "fin"
        /\ SVal(DirectOfCall[1]) = RoundSigned(ExactDirect)
        /\ call.magnitude = ComputedSmaller
        /\ 2 * SVal(call.magnitude) <= ExactSpan
        /\ SwappedOfCall = <<call.magnitude, call.sign_change>>

\* calc_diff_cyclic took the wrap-around candidate for two different inputs
\* whose exact distance around the ends is not what it returned
C23_Witness ==
    /\ CyclicCallFinite
    /\ FNe(call.x, call.y)
    /\ FLt(WrapOfCall[1], DirectOfCall[1])
    /\ call.magnitude = WrapOfCall[1]
    /\ SVal(call.magnitude) # ExactSmaller
    /\ call.sign_change

====
